---- MODULE Spec2Model ----
(***************************************************************************)
(* Model of core/swiftAction/swiftrunner.py: the Swift action runner.      *)
(*                                                                         *)
(* SwiftRunner overrides three hooks of the generic ActionRunner:          *)
(*   epilogue(fp, init_message)  appends the bootstrap fragment and the    *)
(*                               entry-point call to the action source,    *)
(*   build()                     runs swiftc on the synthesized program,   *)
(*   env(message)                binds WHISK_INPUT for one activation.     *)
(* The generic proxy (actionproxy.py: the /init and /run handlers, the     *)
(* base ActionRunner) is not part of the modelled sources; the driver      *)
(* actions below follow the specification document.                        *)
(*                                                                         *)
(* Text is modelled as a sequence of chunks (program text) or of single    *)
(* characters (JSON text, environment values).                             *)
(***************************************************************************)
EXTENDS Integers, Sequences, FiniteSets, TLC

VARIABLES
    files,        \* the file system: path -> [exists, text, exec]
    compiler,     \* whether the swiftc executable can be spawned
    buildState,   \* driver state: "Uninitialized", "Ready" or "Failed"
    initMsg,      \* the init message received (NoInit before /init)
    lastBuild,    \* what the last call of build() observed and returned
    builds,       \* number of calls of build()
    spawns,       \* number of compiler child processes started
    console,      \* what the process printed / what reached its stderr
    heap,         \* environment mappings by reference; heap[BaseRef] is the ambient one
    req,          \* the invocation requests: slot -> [pc, msg, ref, result]
    op            \* name of the last operation

vars == <<files, compiler, buildState, initMsg, lastBuild, builds, spawns,
          console, heap, req, op>>

(***************************************************************************)
(* Bounds of the model.                                                    *)
(***************************************************************************)
MaxReq == 2
MaxBuilds == 2

Req == 1..MaxReq

(***************************************************************************)
(* Module constants of swiftrunner.py.                                     *)
(***************************************************************************)
SRC_EPILOGUE_FILE == "./epilogue.swift"
DEST_SCRIPT_FILE == "/swiftAction/action.swift"
DEST_BIN_FILE == "/swiftAction/action"
BUILD_PROCESS == <<"swiftc", "-v", "-Xfrontend", "-debug-time-function-bodies",
                   "-O", DEST_SCRIPT_FILE, "-o", DEST_BIN_FILE>>

Paths == {SRC_EPILOGUE_FILE, DEST_SCRIPT_FILE, DEST_BIN_FILE}

NoFile == [exists |-> FALSE, text |-> <<>>, exec |-> FALSE]

\* The bootstrap fragment shipped as ./epilogue.swift.
EpilogueText == <<"// bootstrap\n", "func _run_main(mainFunction: [String: Any] -> [String: Any]) -> Void { ... }\n">>

(***************************************************************************)
(* JSON values and json.dumps / json.loads.                                *)
(* A JSON value is a tagged record; a JSON string is a sequence of         *)
(* characters; an object is a function from key strings to values.         *)
(***************************************************************************)
JNull == [t |-> "null"]
JBool(b) == [t |-> "bool", b |-> b]
JNum(n) == [t |-> "num", n |-> n]
JStr(s) == [t |-> "str", s |-> s]
JArr(a) == [t |-> "arr", a |-> a]
JObj(m) == [t |-> "obj", m |-> m]
\* a Python object json cannot serialize (dumps raises TypeError)
PyObject == [t |-> "pyobject"]

EmptyMap == [k \in {} |-> JNull]
EmptyDict == JObj(EmptyMap)

Put(m, k, v) == [x \in (DOMAIN m) \cup {k} |-> IF x = k THEN v ELSE m[x]]

DigitChars == <<"0", "1", "2", "3", "4", "5", "6", "7", "8", "9">>

RECURSIVE Digits(_)
Digits(n) ==
    IF n < 10 THEN <<DigitChars[n + 1]>>
    ELSE Digits(n \div 10) \o <<DigitChars[(n % 10) + 1]>>

\* variant: copies the characters without escaping
EscapeString_raw(s) == s

RECURSIVE EscapeString(_)
EscapeString(s) ==
    IF s = <<>> THEN <<>>
    ELSE (IF Head(s) \in {"\"", "\\"} THEN <<"\\", Head(s)>> ELSE <<Head(s)>>)
         \o EscapeString(Tail(s))

\* The iteration order of a dict: some fixed order of its keys.
RECURSIVE KeyOrder(_)
KeyOrder(S) ==
    IF S = {} THEN <<>>
    ELSE LET k == CHOOSE x \in S : TRUE IN <<k>> \o KeyOrder(S \ {k})

RECURSIVE Serializable(_)
Serializable(v) ==
    CASE v.t = "pyobject" -> FALSE
      [] v.t = "arr" -> \A i \in 1..Len(v.a) : Serializable(v.a[i])
      [] v.t = "obj" -> \A k \in DOMAIN v.m : Serializable(v.m[k])
      [] OTHER -> TRUE

RECURSIVE dumps(_), DumpItems(_), DumpMembers(_, _)
dumps(v) ==
    CASE v.t = "null" -> <<"n", "u", "l", "l">>
      [] v.t = "bool" -> IF v.b THEN <<"t", "r", "u", "e">> ELSE <<"f", "a", "l", "s", "e">>
      [] v.t = "num" -> IF v.n < 0 THEN <<"-">> \o Digits(0 - v.n) ELSE Digits(v.n)
      [] v.t = "str" -> <<"\"">> \o EscapeString(v.s) \o <<"\"">>
      [] v.t = "arr" -> <<"[">> \o DumpItems(v.a) \o <<"]">>
      [] v.t = "obj" -> <<"{">> \o DumpMembers(v.m, KeyOrder(DOMAIN v.m)) \o <<"}">>

DumpItems(a) ==
    IF a = <<>> THEN <<>>
    ELSE dumps(Head(a))
         \o (IF Tail(a) = <<>> THEN <<>> ELSE <<",", " ">> \o DumpItems(Tail(a)))

DumpMembers(m, ks) ==
    IF ks = <<>> THEN <<>>
    ELSE <<"\"">> \o EscapeString(Head(ks)) \o <<"\"", ":", " ">> \o dumps(m[Head(ks)])
         \o (IF Tail(ks) = <<>> THEN <<>> ELSE <<",", " ">> \o DumpMembers(m, Tail(ks)))

ParseFail == [ok |-> FALSE, v |-> JNull, rest |-> <<>>]
ParseOk(v, rest) == [ok |-> TRUE, v |-> v, rest |-> rest]

RECURSIVE SkipWs(_)
SkipWs(ts) == IF ts # <<>> /\ Head(ts) = " " THEN SkipWs(Tail(ts)) ELSE ts

StartsWith(ts, lit) == Len(ts) >= Len(lit) /\ SubSeq(ts, 1, Len(lit)) = lit
Drop(ts, n) == SubSeq(ts, n + 1, Len(ts))

IsDigit(c) == \E d \in 1..10 : DigitChars[d] = c
DigitVal(c) == (CHOOSE d \in 1..10 : DigitChars[d] = c) - 1

RECURSIVE ParseString(_, _)
ParseString(ts, acc) ==
    IF ts = <<>> THEN ParseFail
    ELSE IF Head(ts) = "\"" THEN ParseOk(JStr(acc), Tail(ts))
    ELSE IF Head(ts) = "\\"
         THEN IF Len(ts) < 2 THEN ParseFail
              ELSE ParseString(Drop(ts, 2), Append(acc, ts[2]))
    ELSE ParseString(Tail(ts), Append(acc, Head(ts)))

RECURSIVE ParseDigits(_, _)
ParseDigits(ts, acc) ==
    IF ts # <<>> /\ IsDigit(Head(ts))
    THEN ParseDigits(Tail(ts), acc * 10 + DigitVal(Head(ts)))
    ELSE ParseOk(JNum(acc), ts)

RECURSIVE ParseValue(_), ParseItems(_, _), ParseMembers(_, _)
ParseValue(ts0) ==
    LET ts == SkipWs(ts0) IN
    IF ts = <<>> THEN ParseFail
    ELSE IF StartsWith(ts, <<"n", "u", "l", "l">>) THEN ParseOk(JNull, Drop(ts, 4))
    ELSE IF StartsWith(ts, <<"t", "r", "u", "e">>) THEN ParseOk(JBool(TRUE), Drop(ts, 4))
    ELSE IF StartsWith(ts, <<"f", "a", "l", "s", "e">>) THEN ParseOk(JBool(FALSE), Drop(ts, 5))
    ELSE IF Head(ts) = "\"" THEN ParseString(Tail(ts), <<>>)
    ELSE IF IsDigit(Head(ts)) THEN ParseDigits(ts, 0)
    ELSE IF Head(ts) = "-"
         THEN IF Len(ts) >= 2 /\ IsDigit(ts[2])
              THEN LET r == ParseDigits(Tail(ts), 0) IN ParseOk(JNum(0 - r.v.n), r.rest)
              ELSE ParseFail
    ELSE IF Head(ts) = "["
         THEN LET r == SkipWs(Tail(ts)) IN
              IF r # <<>> /\ Head(r) = "]" THEN ParseOk(JArr(<<>>), Tail(r))
              ELSE ParseItems(r, <<>>)
    ELSE IF Head(ts) = "{"
         THEN LET r == SkipWs(Tail(ts)) IN
              IF r # <<>> /\ Head(r) = "}" THEN ParseOk(EmptyDict, Tail(r))
              ELSE ParseMembers(r, EmptyMap)
    ELSE ParseFail

ParseItems(ts, acc) ==
    LET r == ParseValue(ts) IN
    IF ~r.ok THEN ParseFail
    ELSE LET rest == SkipWs(r.rest)
             acc2 == Append(acc, r.v)
         IN IF rest = <<>> THEN ParseFail
            ELSE IF Head(rest) = "," THEN ParseItems(Tail(rest), acc2)
            ELSE IF Head(rest) = "]" THEN ParseOk(JArr(acc2), Tail(rest))
            ELSE ParseFail

ParseMembers(ts0, m) ==
    LET ts == SkipWs(ts0) IN
    IF ts = <<>> \/ Head(ts) # "\"" THEN ParseFail
    ELSE LET k == ParseString(Tail(ts), <<>>) IN
         IF ~k.ok THEN ParseFail
         ELSE LET c == SkipWs(k.rest) IN
              IF c = <<>> \/ Head(c) # ":" THEN ParseFail
              ELSE LET r == ParseValue(Tail(c)) IN
                   IF ~r.ok THEN ParseFail
                   ELSE LET rest == SkipWs(r.rest)
                            m2 == Put(m, k.v.s, r.v)
                        IN IF rest = <<>> THEN ParseFail
                           ELSE IF Head(rest) = "," THEN ParseMembers(Tail(rest), m2)
                           ELSE IF Head(rest) = "}" THEN ParseOk(JObj(m2), Tail(rest))
                           ELSE ParseFail

JsonError == [t |-> "error"]

loads(ts) ==
    LET r == ParseValue(ts) IN
    IF r.ok /\ SkipWs(r.rest) = <<>> THEN r.v ELSE JsonError

(***************************************************************************)
(* Inputs: init messages, run messages, compiler runs.                     *)
(***************************************************************************)
UserCode == <<"func handleRequest(args: [String: Any]) -> [String: Any] { return args }\n">>

\* {"code": ...} with "main" omitted, given, or given as the empty string
InitMessages ==
    {[k \in {"code"} |-> UserCode]}
    \cup {[k \in {"code", "main"} |-> IF k = "code" THEN UserCode ELSE m] :
            m \in {"handleRequest", ""}}

NoInit == [k \in {} |-> UserCode]

P1 == JObj([k \in {<<"x">>} |-> JNum(1)])
P3 == JObj([k \in {<<"s">>, <<"l">>} |->
              IF k = <<"s">> THEN JStr(<<"a", "\"">>) ELSE JArr(<<JNum(10), JBool(TRUE)>>)])

\* a payload that is not a mapping
P4 == JNum(12)

Payloads == {P1, P3, P4, JNull, PyObject}

\* A run message is None (present = FALSE) or a dict d.
NoMessage == [present |-> FALSE, d |-> EmptyMap]
Dict(d) == [present |-> TRUE, d |-> d]

Messages ==
    {NoMessage, Dict(EmptyMap), Dict([k \in {"deadline"} |-> JNum(7)])}
    \cup {Dict([k \in {"value"} |-> p]) : p \in Payloads}

\* One run of the compiler child: exit status and what it writes.
CompilerRuns ==
    {[exit |-> 0, out |-> "swiftc -frontend ...", err |-> "Swift version 3"],
     [exit |-> 1, out |-> "swiftc -frontend ...", err |-> "syntax error"],
     [exit |-> 2, out |-> "", err |-> ""]}

(***************************************************************************)
(* SwiftRunner.epilogue(fp, init_message).  fp is the content of the open  *)
(* destination file; the result is its content afterwards and the          *)
(* exception raised, if any.                                               *)
(***************************************************************************)
\* "_run_main(%s)\n" % main_function
RunMainStatement(main_function) == <<"_run_main(", main_function, ")\n">>

\* variant: init_message.get("main") or "main"
MainFunction_or(init_message) ==
    IF "main" \in DOMAIN init_message /\ init_message["main"] # ""
    THEN init_message["main"] ELSE "main"

MainFunction(init_message) ==
    IF "main" \in DOMAIN init_message THEN init_message["main"] ELSE "main"

\* variant: a missing fragment file is skipped
epilogue_lenient(fp, init_message, fsys) ==
    [fp |-> fp
            \o (IF fsys[SRC_EPILOGUE_FILE].exists THEN fsys[SRC_EPILOGUE_FILE].text ELSE <<>>)
            \o RunMainStatement(MainFunction(init_message)),
     raised |-> "none"]

\* variant: the invocation statement is written before the fragment
epilogue_swapped(fp, init_message, fsys) ==
    LET main_function == MainFunction(init_message) IN
    IF ~fsys[SRC_EPILOGUE_FILE].exists
    THEN [fp |-> fp \o RunMainStatement(main_function), raised |-> "IOError"]
    ELSE [fp |-> fp \o RunMainStatement(main_function) \o fsys[SRC_EPILOGUE_FILE].text,
          raised |-> "none"]

epilogue(fp, init_message, fsys) ==
    LET main_function == MainFunction(init_message) IN
    IF ~fsys[SRC_EPILOGUE_FILE].exists
    THEN [fp |-> fp, raised |-> "IOError"]
    ELSE [fp |-> fp \o fsys[SRC_EPILOGUE_FILE].text \o RunMainStatement(main_function),
          raised |-> "none"]

(***************************************************************************)
(* SwiftRunner.build().                                                    *)
(***************************************************************************)
PyNone == [none |-> TRUE, text |-> ""]

\* What communicate() returns for a stream: its text when the stream was
\* opened with PIPE, None otherwise.
Communicate(piped, text) == IF piped THEN [none |-> FALSE, text |-> text] ELSE PyNone

PyStr(x) == IF x.none THEN "None" ELSE x.text

Line(text) == [k |-> "print", text |-> text]

OutputPath(args) == args[(CHOOSE i \in 1..Len(args) : args[i] = "-o") + 1]

\* The effect of the compiler on the file system: on exit status 0 the
\* executable is at the path given after -o, otherwise nothing is written.
swiftc(args, fsys, run) ==
    IF run.exit = 0
    THEN [fsys EXCEPT ![OutputPath(args)] = [exists |-> TRUE, text |-> <<"executable">>, exec |-> TRUE]]
    ELSE fsys

NoBuild == [called |-> FALSE, spawned |-> FALSE, exit |-> 0, err |-> "",
            o |-> PyNone, e |-> PyNone, ret |-> "None", raised |-> "none"]

\* variant: reserves the output path (an empty executable) before compiling
build_touch(fsys, installed, run) ==
    LET f0 == [fsys EXCEPT ![DEST_BIN_FILE] = [exists |-> TRUE, text |-> <<>>, exec |-> TRUE]]
        o == Communicate(TRUE, run.out)
        e == Communicate(FALSE, run.err)
    IN IF ~installed
       THEN [files |-> f0, spawned |-> 0, printed |-> <<>>,
             result |-> [NoBuild EXCEPT !.called = TRUE, !.raised = "OSError"]]
       ELSE [files |-> swiftc(BUILD_PROCESS, f0, run), spawned |-> 1, printed |-> <<>>,
             result |-> [called |-> TRUE, spawned |-> TRUE, exit |-> run.exit,
                         err |-> run.err, o |-> o, e |-> e,
                         ret |-> "None", raised |-> "none"]]

\* variant: returns p.returncode == 0
build_checked(fsys, installed, run) ==
    LET o == Communicate(TRUE, run.out)
        e == Communicate(FALSE, run.err)
    IN IF ~installed
       THEN [files |-> fsys, spawned |-> 0, printed |-> <<>>,
             result |-> [NoBuild EXCEPT !.called = TRUE, !.raised = "OSError"]]
       ELSE [files |-> swiftc(BUILD_PROCESS, fsys, run), spawned |-> 1, printed |-> <<>>,
             result |-> [called |-> TRUE, spawned |-> TRUE, exit |-> run.exit,
                         err |-> run.err, o |-> o, e |-> e,
                         ret |-> IF run.exit = 0 THEN "True" ELSE "False",
                         raised |-> "none"]]

\* variant: compiles a second time when the first compilation fails
build_fallback(fsys, installed, run) ==
    LET o == Communicate(TRUE, run.out)
        e == Communicate(FALSE, run.err)
    IN IF ~installed
       THEN [files |-> fsys, spawned |-> 0, printed |-> <<>>,
             result |-> [NoBuild EXCEPT !.called = TRUE, !.raised = "OSError"]]
       ELSE [files |-> swiftc(BUILD_PROCESS, fsys, run),
             spawned |-> IF run.exit = 0 THEN 1 ELSE 2, printed |-> <<>>,
             result |-> [called |-> TRUE, spawned |-> TRUE, exit |-> run.exit,
                         err |-> run.err, o |-> o, e |-> e,
                         ret |-> "None", raised |-> "none"]]

\* variant: a failure to start the compiler is caught and ignored
build_swallow(fsys, installed, run) ==
    LET o == Communicate(TRUE, run.out)
        e == Communicate(FALSE, run.err)
    IN IF ~installed
       THEN [files |-> fsys, spawned |-> 0, printed |-> <<>>,
             result |-> [NoBuild EXCEPT !.called = TRUE]]
       ELSE [files |-> swiftc(BUILD_PROCESS, fsys, run), spawned |-> 1, printed |-> <<>>,
             result |-> [called |-> TRUE, spawned |-> TRUE, exit |-> run.exit,
                         err |-> run.err, o |-> o, e |-> e,
                         ret |-> "None", raised |-> "none"]]

\* variant: the child is started and not waited for
build_nowait(fsys, installed, run) ==
    LET start == <<Line(<<"Start compilation">>), Line(BUILD_PROCESS)>> IN
    IF ~installed
    THEN [files |-> fsys, spawned |-> 0, printed |-> start,
          result |-> [NoBuild EXCEPT !.called = TRUE, !.raised = "OSError"]]
    ELSE [files |-> swiftc(BUILD_PROCESS, fsys, run),
          spawned |-> 1,
          printed |-> start
                      \o <<[k |-> "spawn", text |-> BUILD_PROCESS],
                           Line(<<"Finished compilation">>),
                           [k |-> "exit", text |-> <<DigitChars[run.exit + 1]>>]>>,
          result |-> [called |-> TRUE, spawned |-> TRUE, exit |-> run.exit,
                      err |-> run.err, o |-> PyNone, e |-> PyNone,
                      ret |-> "None", raised |-> "none"]]

\* variant: a non-zero exit status raises, as subprocess.check_call does
build_raise(fsys, installed, run) ==
    LET o == Communicate(TRUE, run.out)
        e == Communicate(FALSE, run.err)
    IN IF ~installed
       THEN [files |-> fsys, spawned |-> 0, printed |-> <<>>,
             result |-> [NoBuild EXCEPT !.called = TRUE, !.raised = "OSError"]]
       ELSE [files |-> swiftc(BUILD_PROCESS, fsys, run), spawned |-> 1, printed |-> <<>>,
             result |-> [called |-> TRUE, spawned |-> TRUE, exit |-> run.exit,
                         err |-> run.err, o |-> o, e |-> e,
                         ret |-> "None",
                         raised |-> IF run.exit = 0 THEN "none" ELSE "CalledProcessError"]]

build(fsys, installed, run) ==
    LET start == <<Line(<<"Start compilation">>), Line(BUILD_PROCESS)>> IN
    IF ~installed
    THEN \* Popen raises OSError: nothing after line 50 runs
         [files |-> fsys, spawned |-> 0, printed |-> start,
          result |-> [NoBuild EXCEPT !.called = TRUE, !.raised = "OSError"]]
    ELSE LET o == Communicate(TRUE, run.out)
             e == Communicate(FALSE, run.err)
         IN [files |-> swiftc(BUILD_PROCESS, fsys, run),
             spawned |-> 1,
             printed |-> start
                         \o <<[k |-> "spawn", text |-> BUILD_PROCESS]>>
                         \o (IF e.none /\ run.err # ""
                             THEN <<[k |-> "stderr", text |-> <<run.err>>]>> ELSE <<>>)
                         \o <<[k |-> "exit", text |-> <<DigitChars[run.exit + 1]>>],
                              Line(<<PyStr(o)>>), Line(<<PyStr(e)>>),
                              Line(<<"Finished compilation">>)>>,
             result |-> [called |-> TRUE, spawned |-> TRUE, exit |-> run.exit,
                         err |-> run.err, o |-> o, e |-> e,
                         ret |-> "None", raised |-> "none"]]

(***************************************************************************)
(* SwiftRunner.env(message).                                               *)
(***************************************************************************)
BaseRef == 1

AmbientEnv == [k \in {"PATH", "__OW_DEADLINE"} |->
                 IF k = "PATH" THEN <<"/", "b", "i", "n">> ELSE <<"7">>]

\* ActionRunner.env: the environment every action starts from, as a mapping
\* of its own.
ActionRunner_env(hp, message) ==
    [heap |-> Append(hp, hp[BaseRef]), ref |-> Len(hp) + 1]

Falsy(message) == ~message.present \/ DOMAIN message.d = {}

\* variant: (message.get('value') or {}) if message else {}
Args_or(message) ==
    IF Falsy(message) THEN EmptyDict
    ELSE IF "value" \in DOMAIN message.d /\ message.d["value"] \notin {JNull, JNum(0), JBool(FALSE)}
         THEN message.d["value"] ELSE EmptyDict

\* message.get('value', {}) if message else {}
Args(message) ==
    IF Falsy(message) THEN EmptyDict
    ELSE IF "value" \in DOMAIN message.d THEN message.d["value"] ELSE EmptyDict

\* variant: the binding is also exported to the ambient environment
env_bind_export(hp, ref, message) ==
    LET args == Args(message) IN
    IF ~Serializable(args)
    THEN [heap |-> hp, ref |-> 0, raised |-> "TypeError"]
    ELSE [heap |-> [hp EXCEPT ![ref] = Put(@, "WHISK_INPUT", dumps(args)),
                              ![BaseRef] = Put(@, "WHISK_INPUT", dumps(args))],
          ref |-> ref, raised |-> "none"]

\* variant: the runner keeps one environment mapping and reuses it
env_bind_cached(hp, ref, message) ==
    LET args == Args(message) IN
    IF ~Serializable(args)
    THEN [heap |-> hp, ref |-> 0, raised |-> "TypeError"]
    ELSE [heap |-> [hp EXCEPT ![2] = Put(@, "WHISK_INPUT", dumps(args))],
          ref |-> 2, raised |-> "none"]

\* variant: a payload that cannot be serialized resets the input variable of
\* the ambient environment
env_bind_reset(hp, ref, message) ==
    LET args == Args(message) IN
    IF ~Serializable(args)
    THEN [heap |-> [hp EXCEPT ![BaseRef] = Put(@, "WHISK_INPUT", <<"{", "}">>)],
          ref |-> 0, raised |-> "TypeError"]
    ELSE [heap |-> [hp EXCEPT ![ref] = Put(@, "WHISK_INPUT", dumps(args))],
          ref |-> ref, raised |-> "none"]

\* lines 60-62, on the mapping that line 59 returned
env_bind(hp, ref, message) ==
    LET args == Args(message) IN
    IF ~Serializable(args)
    THEN [heap |-> hp, ref |-> 0, raised |-> "TypeError"]
    ELSE [heap |-> [hp EXCEPT ![ref] = Put(@, "WHISK_INPUT", dumps(args))],
          ref |-> ref, raised |-> "none"]

env(hp, message) ==
    LET a == ActionRunner_env(hp, message) IN env_bind(a.heap, a.ref, message)

(***************************************************************************)
(* The driver.                                                             *)
(***************************************************************************)
\* the executable exists at the artifact path
verify(fsys) == fsys[DEST_BIN_FILE].exists /\ fsys[DEST_BIN_FILE].exec

Classify(raised, fsys) == IF raised = "none" /\ verify(fsys) THEN "Ready" ELSE "Failed"

NoReq == [pc |-> "idle", msg |-> NoMessage, ref |-> 0, result |-> ""]

Init ==
    /\ files \in {[p \in Paths |->
                     IF p = SRC_EPILOGUE_FILE /\ t
                     THEN [exists |-> TRUE, text |-> EpilogueText, exec |-> FALSE]
                     ELSE NoFile] : t \in BOOLEAN}
    /\ compiler \in BOOLEAN
    /\ buildState = "Uninitialized"
    /\ initMsg = NoInit
    /\ lastBuild = NoBuild
    /\ builds = 0
    /\ spawns = 0
    /\ console = <<>>
    /\ heap = <<AmbientEnv>>
    /\ req = [r \in Req |-> NoReq]
    /\ op = "start"

\* initialize(initMessage): program synthesis, then the build.
Initialize(init_message, run) ==
    /\ buildState = "Uninitialized"
    /\ LET ep == epilogue(init_message["code"], init_message, files)
           f1 == [files EXCEPT ![DEST_SCRIPT_FILE] =
                     [exists |-> TRUE, text |-> ep.fp, exec |-> FALSE]]
           b  == build(f1, compiler, run)
       IN IF ep.raised # "none"
          THEN /\ files' = f1
               /\ buildState' = "Failed"
               /\ UNCHANGED <<lastBuild, builds, spawns, console>>
          ELSE /\ files' = b.files
               /\ buildState' = Classify(b.result.raised, b.files)
               /\ lastBuild' = b.result
               /\ builds' = builds + 1
               /\ spawns' = spawns + b.spawned
               /\ console' = console \o b.printed
    /\ initMsg' = init_message
    /\ op' = "initialize"
    /\ UNCHANGED <<compiler, heap, req>>

\* invoke(runMessage), first part: the readiness check and line 59 of env().
Invoke(r, message) ==
    /\ req[r].pc = "idle"
    /\ IF buildState # "Ready"
       THEN /\ req' = [req EXCEPT ![r] = [pc |-> "rejected", msg |-> NoMessage, ref |-> 0,
                                          result |-> "runtime not ready"]]
            /\ heap' = heap
       ELSE LET a == ActionRunner_env(heap, message) IN
            /\ heap' = a.heap
            /\ req' = [req EXCEPT ![r] = [pc |-> "base", msg |-> message, ref |-> a.ref,
                                          result |-> ""]]
    /\ op' = "invoke"
    /\ UNCHANGED <<files, compiler, buildState, initMsg, lastBuild, builds, spawns, console>>

\* variant: env() also hands the input over by appending it to the program file
InvokeFinish_rewrite(r) ==
    /\ req[r].pc = "base"
    /\ LET b == env_bind(heap, req[r].ref, req[r].msg) IN
       /\ heap' = b.heap
       /\ req' = [req EXCEPT ![r] =
                    IF b.raised = "none"
                    THEN [@ EXCEPT !.pc = "done", !.ref = b.ref,
                                   !.result = IF verify(files) THEN "executed" ELSE "exec failed"]
                    ELSE [@ EXCEPT !.pc = "error", !.ref = 0, !.result = "invocation error"]]
    /\ files' = [files EXCEPT ![DEST_SCRIPT_FILE].text = Append(@, "// input\n")]
    /\ op' = "env"
    /\ UNCHANGED <<compiler, buildState, initMsg, lastBuild, builds, spawns, console>>

\* invoke(runMessage), second part: lines 60-62 of env() for request r; the
\* driver then runs the artifact under the environment env() returned.
InvokeFinish(r) ==
    /\ req[r].pc = "base"
    /\ LET b == env_bind(heap, req[r].ref, req[r].msg) IN
       /\ heap' = b.heap
       /\ req' = [req EXCEPT ![r] =
                    IF b.raised = "none"
                    THEN [@ EXCEPT !.pc = "done", !.ref = b.ref,
                                   !.result = IF verify(files) THEN "executed" ELSE "exec failed"]
                    ELSE [@ EXCEPT !.pc = "error", !.ref = 0, !.result = "invocation error"]]
    /\ op' = "env"
    /\ UNCHANGED <<files, compiler, buildState, initMsg, lastBuild, builds, spawns, console>>

\* variant: the second build() re-derives the readiness of the runner
Rebuild_reclassify(run) ==
    /\ buildState # "Uninitialized"
    /\ builds < MaxBuilds
    /\ LET b == build(files, compiler, run) IN
       /\ files' = b.files
       /\ lastBuild' = b.result
       /\ builds' = builds + 1
       /\ spawns' = spawns + b.spawned
       /\ console' = console \o b.printed
       /\ buildState' = Classify(b.result.raised, b.files)
    /\ op' = "build"
    /\ UNCHANGED <<compiler, initMsg, heap, req>>

\* build() called again on the runner after initialization.
Rebuild(run) ==
    /\ buildState # "Uninitialized"
    /\ builds < MaxBuilds
    /\ LET b == build(files, compiler, run) IN
       /\ files' = b.files
       /\ lastBuild' = b.result
       /\ builds' = builds + 1
       /\ spawns' = spawns + b.spawned
       /\ console' = console \o b.printed
    /\ op' = "build"
    /\ UNCHANGED <<compiler, buildState, initMsg, heap, req>>

Next ==
    \/ \E m \in InitMessages, run \in CompilerRuns : Initialize(m, run)
    \/ \E r \in Req, m \in Messages : Invoke(r, m)
    \/ \E r \in Req : InvokeFinish(r)

Spec == Init /\ [][Next]_vars

NextRebuild ==
    \/ Next
    \/ \E run \in CompilerRuns : Rebuild(run)

SpecRebuild == Init /\ [][NextRebuild]_vars

(***************************************************************************)
(* Properties.                                                             *)
(***************************************************************************)
BuildStates == {"Uninitialized", "Ready", "Failed"}

\* the compiler ran and exited with a non-zero status
CompileFailed == lastBuild.spawned /\ lastBuild.exit # 0

\* what build() tells its caller: a true value, a false value or an
\* exception; None is neither a success nor a failure report
ReportsSuccess(b) == b.raised = "none" /\ b.ret = "True"
ReportsFailure(b) == b.raised # "none" \/ b.ret = "False"

\* C1: once the compiler has exited non-zero, every invocation attempt is
\* rejected with "runtime not ready": no environment is built for it, the
\* artifact is not executed, and the build is not attempted again.
C1_FailedBuildRejectsInvocations ==
    CompileFailed =>
        /\ buildState = "Failed"
        /\ \A r \in Req : req[r].pc \in {"idle", "rejected"}
        /\ \A r \in Req : req[r].pc = "rejected" => req[r].result = "runtime not ready"
        /\ Len(heap) = 1
        /\ builds = 1
        /\ spawns = 1

C1_Witness ==
    /\ CompileFailed
    /\ op = "invoke"
    /\ \A r \in Req : req[r].pc = "rejected"

C3_StderrCaptured ==
    lastBuild.spawned =>
        /\ ~lastBuild.e.none
        /\ lastBuild.e.text = lastBuild.err

\* C4: over initialize and invoke operations the compiler is spawned at most
\* once and build() runs at most once; no invoke step spawns the compiler.
C4_CompilerSpawnedAtMostOnce ==
    [][/\ spawns' <= 1
       /\ builds' <= 1
       /\ op' \in {"invoke", "env"} => spawns' = spawns /\ builds' = builds]_vars

C4_Witness ==
    /\ spawns = 1
    /\ builds = 1
    /\ \A r \in Req : req[r].pc = "done"

Returned == {r \in Req : req[r].pc = "done"}

\* the payload of a run message: its 'value', the empty mapping when absent
PayloadOf(message) ==
    IF message.present /\ "value" \in DOMAIN message.d
    THEN message.d["value"] ELSE EmptyDict

C8_WhiskInputRoundTrip ==
    \A r \in Returned :
        LET e == heap[req[r].ref] IN
        /\ DOMAIN e \ DOMAIN AmbientEnv = {"WHISK_INPUT"}
        /\ loads(e["WHISK_INPUT"]) = PayloadOf(req[r].msg)
        /\ (~req[r].msg.present \/ "value" \notin DOMAIN req[r].msg.d)
              => e["WHISK_INPUT"] = <<"{", "}">>

C8_Witness ==
    \E r1, r2 \in Returned :
        /\ req[r1].msg = Dict([k \in {"value"} |-> P3])
        /\ req[r2].msg = NoMessage

\* the text that epilogue() added after the action code
Appended(text, code) == SubSeq(text, Len(code) + 1, Len(text))

Count(text, chunk) == Cardinality({i \in 1..Len(text) : text[i] = chunk})

\* the synthesis of the program has completed
Synthesized == initMsg # NoInit /\ files[SRC_EPILOGUE_FILE].exists

\* C9: the synthesized program ends with the statement _run_main(E), E being
\* the 'main' value of the init message or main when omitted, and that is
\* the only invocation statement epilogue() wrote.
C9_OneInvocationStatement ==
    Synthesized =>
        LET text == files[DEST_SCRIPT_FILE].text
            E == IF "main" \in DOMAIN initMsg THEN initMsg["main"] ELSE "main"
        IN /\ Len(text) >= 3
           /\ SubSeq(text, Len(text) - 2, Len(text)) = <<"_run_main(", E, ")\n">>
           /\ Count(Appended(text, initMsg["code"]), "_run_main(") = 1

C9_Witness ==
    /\ Synthesized
    /\ "main" \in DOMAIN initMsg
    /\ initMsg["main"] = ""
    /\ files[DEST_SCRIPT_FILE].text[Len(files[DEST_SCRIPT_FILE].text) - 1] = ""

\* initialization met a missing fragment file or a missing compiler
TemplateMissing == initMsg # NoInit /\ ~files[SRC_EPILOGUE_FILE].exists
CompilerMissing == initMsg # NoInit /\ ~compiler

\* C10: after a missing fragment file or an unspawnable compiler the
\* initialization has failed and no invocation succeeds; with the fragment
\* file missing the compiler is never spawned.
C10_InfrastructureErrorIsFatal ==
    /\ (TemplateMissing \/ CompilerMissing) =>
          /\ buildState = "Failed"
          /\ \A r \in Req : req[r].pc \in {"idle", "rejected"}
          /\ ~verify(files)
    /\ TemplateMissing => spawns = 0 /\ builds = 0

C10_Witness ==
    /\ TemplateMissing
    /\ compiler
    /\ op = "invoke"
    /\ \A r \in Req : req[r].pc = "rejected"

\* the compiler could not be started by the last build()
SpawnFailed == lastBuild.called /\ ~lastBuild.spawned

Errored == {r \in Req : req[r].pc = "error"}

\* C12: a step in which env() fails to serialize the payload leaves the
\* build state, the files, the build record, the ambient environment and
\* the environments already returned as they were; an env() call that
\* returns after such a failure binds the encoding of its own payload.
C12_InvocationErrorIsIsolated ==
    [][/\ (\E r \in Req : req[r].pc = "base" /\ req'[r].pc = "error") =>
            /\ UNCHANGED <<files, buildState, lastBuild, builds, spawns>>
            /\ heap'[BaseRef] = heap[BaseRef]
            /\ \A q \in Req : req[q].pc = "done" =>
                  /\ req'[q] = req[q]
                  /\ heap'[req[q].ref] = heap[req[q].ref]
       /\ \A q \in Req : (Errored # {} /\ req[q].pc = "base" /\ req'[q].pc = "done") =>
            /\ heap'[req'[q].ref]["WHISK_INPUT"] = dumps(PayloadOf(req'[q].msg))
            /\ req'[q].result = "executed"]_vars

\* request 1 failed on an unserializable payload; request 2, whose env()
\* call started after that of request 1, returned an environment
C12_Witness ==
    /\ req[1].pc = "error"
    /\ req[1].msg = Dict([k \in {"value"} |-> PyObject])
    /\ req[2].pc = "done"
    /\ req[2].ref = 3
    /\ buildState = "Ready"
    /\ verify(files)

\* build() has run to its end at least once
BuildCompleted == builds >= 1

\* C13: once the build has completed, no step of initialize/invoke changes
\* the file at the synthesized-program path or the file at the artifact path.
C13_ProgramAndArtifactImmutable ==
    [][BuildCompleted =>
          /\ files'[DEST_SCRIPT_FILE] = files[DEST_SCRIPT_FILE]
          /\ files'[DEST_BIN_FILE] = files[DEST_BIN_FILE]]_vars

C13_Witness ==
    /\ BuildCompleted
    /\ verify(files)
    /\ files[DEST_SCRIPT_FILE].exists
    /\ \A r \in Req : req[r].pc = "done"
    /\ op = "env"

\* the console entries that mark the course of a build: the two records
\* build() prints, the start of the child and its termination
MarkOf(x) ==
    IF x.k = "print"
    THEN IF x.text = <<"Start compilation">> THEN "start"
         ELSE IF x.text = <<"Finished compilation">> THEN "finish"
         ELSE "other"
    ELSE x.k

RECURSIVE MarksOf(_)
MarksOf(c) ==
    IF c = <<>> THEN <<>>
    ELSE (IF MarkOf(Head(c)) \in {"start", "spawn", "exit", "finish"}
          THEN <<MarkOf(Head(c))>> ELSE <<>>)
         \o MarksOf(Tail(c))

\* every build is start, spawn, exit, finish in this order, or a lone start
\* when the child could not be started
RECURSIVE Blocking(_)
Blocking(m) ==
    IF m = <<>> THEN TRUE
    ELSE IF StartsWith(m, <<"start", "spawn", "exit", "finish">>) THEN Blocking(Drop(m, 4))
    ELSE IF Head(m) = "start" /\ (Len(m) = 1 \/ m[2] = "start") THEN Blocking(Tail(m))
    ELSE FALSE

\* C14: in every build the child is started after the start record; the end
\* record is written, and build() returns, only after the child terminated.
C14_BuildBlocksUntilChildExits ==
    /\ Blocking(MarksOf(console))
    /\ lastBuild.spawned =>
          /\ console # <<>>
          /\ console[Len(console)] = Line(<<"Finished compilation">>)

C14_Witness ==
    /\ builds = 2
    /\ spawns = 2
    /\ MarksOf(console) = <<"start", "spawn", "exit", "finish", "start", "spawn", "exit", "finish">>

\* C16: the synthesized program is the action code as received, then the
\* whole bootstrap fragment, then the invocation statement; when the
\* fragment file is missing the file holds the action code alone.
C16_ProgramLayout ==
    /\ Synthesized =>
          LET text == files[DEST_SCRIPT_FILE].text
              n == Len(initMsg["code"])
              f == Len(EpilogueText)
          IN /\ Len(text) = n + f + 3
             /\ SubSeq(text, 1, n) = initMsg["code"]
             /\ SubSeq(text, n + 1, n + f) = EpilogueText
             /\ text[n + f + 1] = "_run_main("
             /\ text[n + f + 3] = ")\n"
    /\ TemplateMissing => files[DEST_SCRIPT_FILE].text = initMsg["code"]

C16_Witness ==
    /\ Synthesized
    /\ "main" \in DOMAIN initMsg
    /\ initMsg["main"] = "handleRequest"
    /\ Len(files[DEST_SCRIPT_FILE].text) = Len(UserCode) + Len(EpilogueText) + 3
    /\ verify(files)

\* the run message carries a 'value'
HasValue(message) == message.present /\ "value" \in DOMAIN message.d

\* C17: when the run message has a 'value', WHISK_INPUT is the encoding of
\* that value whatever it is: null gives "null", a number gives its digits;
\* "{}" is bound only for a message without a 'value' or with the empty
\* mapping as its value.
C17_DefaultOnlyWhenValueAbsent ==
    \A r \in Returned :
        LET w == heap[req[r].ref]["WHISK_INPUT"]
            m == req[r].msg
        IN /\ HasValue(m) => loads(w) = m.d["value"]
           /\ (HasValue(m) /\ m.d["value"] = JNull) => w = <<"n", "u", "l", "l">>
           /\ (HasValue(m) /\ m.d["value"] = P4) => w = <<"1", "2">>
           /\ w = <<"{", "}">> => (~HasValue(m) \/ m.d["value"] = EmptyDict)

C17_Witness ==
    \E r1, r2 \in Returned :
        /\ req[r1].msg = Dict([k \in {"value"} |-> JNull])
        /\ heap[req[r1].ref]["WHISK_INPUT"] = <<"n", "u", "l", "l">>
        /\ req[r2].msg = Dict([k \in {"value"} |-> P4])

\* C18: every call of build() starts the compiler once when it can be
\* started, and then returns None without an exception whatever the exit
\* status; build() raises only when the compiler cannot be started, and then
\* no child process exists.
C18_BuildOutcomeIgnoresExitStatus ==
    [][builds' = builds + 1 =>
          /\ lastBuild'.called
          /\ compiler =>
                (/\ spawns' = spawns + 1
                 /\ lastBuild'.spawned
                 /\ lastBuild'.raised = "none"
                 /\ lastBuild'.ret = "None")
          /\ ~compiler =>
                (/\ spawns' = spawns
                 /\ ~lastBuild'.spawned
                 /\ lastBuild'.raised = "OSError")]_vars

\* two calls of build(), the compiler exiting with 0 and then with 1
C18_Witness ==
    /\ builds = 2
    /\ spawns = 2
    /\ buildState = "Ready"
    /\ lastBuild.exit = 1
    /\ lastBuild.raised = "none"
    /\ lastBuild.ret = "None"

====
